---- MODULE Spec2Model ----
(***************************************************************************)
(* gollama-export: export of ollama models (src/main.go).                  *)
(*                                                                         *)
(* Strings are sequences of byte values, so that strings.Contains,         *)
(* strings.Split, sort.Strings and the regexp scan are computed on the     *)
(* bytes as the Go code computes them.  A path of the source manifest tree *)
(* is the full path main walks; a path of the destination manifest tree is *)
(* written relative to <output>/models/manifests/registry.ollama.ai/library *)
(* (<<>> is that directory itself).                                        *)
(***************************************************************************)
EXTENDS Integers, Sequences, FiniteSets, TLC

\* ------------------------------------------------------------------------
\* Bounds of the model
\* ------------------------------------------------------------------------
\* longest selector list given on the command line
MaxSelectors == 2
\* number of transient I/O errors the environment injects into the run
MaxFaults == 1
\* longest manifest text scanned on its own, in tokens
MaxTokens == 3
\* longest model name located on its own, in bytes
MaxNameLen == 3
\* layers of a manifest document
MaxLayers == 3

\* ------------------------------------------------------------------------
\* Byte strings
\* ------------------------------------------------------------------------
\* "/"
Slash == 47
\* ":"
Colon == 58

\* default of flag -o: "/var/lib/ollama"
ollamaBaseDir == <<47, 118, 97, 114, 47, 108, 105, 98, 47, 111, 108, 108, 97, 109, 97>>

\* filepath.Join(*ollamaBaseDir, "manifests/registry.ollama.ai/library/"):
\* Join cleans the result, the trailing separator is dropped
LibraryRoot == ollamaBaseDir \o <<47, 109, 97, 110, 105, 102, 101, 115, 116, 115, 47, 114, 101, 103, 105, 115, 116, 114, 121, 46, 111, 108, 108, 97, 109, 97, 46, 97, 105, 47, 108, 105, 98, 114, 97, 114, 121>>

\* the lesser of two integers
Min(a, b) == IF a < b THEN a ELSE b

\* Go's string comparison a < b: bytewise lexicographic
StrLess(a, b) ==
  LET m == Min(Len(a), Len(b))
      diff == {i \in 1..m : a[i] # b[i]}
  IN  IF diff = {}
        THEN Len(a) < Len(b)
        ELSE LET k == CHOOSE i \in diff : \A j \in diff : i <= j
             IN  a[k] < b[k]

\* strings.HasPrefix(s, p)
HasPrefix(s, p) == Len(p) <= Len(s) /\ SubSeq(s, 1, Len(p)) = p

\* strings.Contains(s, sub)
Contains(s, sub) ==
  \E i \in 0..(Len(s) - Len(sub)) : SubSeq(s, i + 1, i + Len(sub)) = sub

\* strings.TrimPrefix(s, p)
TrimPrefix(s, p) == IF HasPrefix(s, p) THEN SubSeq(s, Len(p) + 1, Len(s)) ELSE s

\* strings.ReplaceAll(s, old, new) for one-byte old and new
ReplaceAll(s, old, new) == [i \in 1..Len(s) |-> IF s[i] = old THEN new ELSE s[i]]

\* strings.Split(s, sep) for a one-byte separator: the pieces between the
\* separators, always at least one piece
RECURSIVE Split(_, _)
Split(s, sep) ==
  LET hits == {i \in 1..Len(s) : s[i] = sep}
  IN  IF hits = {}
        THEN <<s>>
        ELSE LET k == CHOOSE i \in hits : \A j \in hits : i <= j
             IN  <<SubSeq(s, 1, k - 1)>> \o Split(SubSeq(s, k + 1, Len(s)), sep)

\* insertion of x into the ascending sequence sorted
RECURSIVE Insert(_, _)
Insert(x, sorted) ==
  IF sorted = <<>> THEN <<x>>
  ELSE IF StrLess(Head(sorted), x)
         THEN <<Head(sorted)>> \o Insert(x, Tail(sorted))
         ELSE <<x>> \o sorted

\* sort.Strings(strs): ascending, duplicates kept
RECURSIVE SortStrings(_)
SortStrings(strs) ==
  IF strs = <<>> THEN <<>> ELSE Insert(Head(strs), SortStrings(Tail(strs)))

\* the elements of a sequence
Range(seq) == {seq[i] : i \in 1..Len(seq)}

\* a set of strings as an ascending sequence (the order os.ReadDir returns
\* entry names in)
RECURSIVE SetToSorted(_)
SetToSorted(S) ==
  IF S = {} THEN <<>>
  ELSE LET x == CHOOSE y \in S : \A z \in S : z = y \/ StrLess(y, z)
       IN  <<x>> \o SetToSorted(S \ {x})

\* unique(strSlice): the first occurrence of every entry, in order
RECURSIVE unique(_)
unique(strSlice) ==
  IF strSlice = <<>> THEN <<>>
  ELSE LET rest == unique(SubSeq(strSlice, 1, Len(strSlice) - 1))
           entry == strSlice[Len(strSlice)]
       IN  IF entry \in Range(rest) THEN rest ELSE Append(rest, entry)

\* ------------------------------------------------------------------------
\* Digest extraction: regexp `sha256:[a-f0-9]+`, FindAllString(.., -1)
\* ------------------------------------------------------------------------
\* "sha256:"
Sha256Prefix == <<115, 104, 97, 50, 53, 54, 58>>

\* the character class [a-f0-9]
IsHex(c) == (c >= 48 /\ c <= 57) \/ (c >= 97 /\ c <= 102)

\* length of the longest run of [a-f0-9] in s from position i on
RECURSIVE HexRun(_, _)
HexRun(s, i) == IF i <= Len(s) /\ IsHex(s[i]) THEN 1 + HexRun(s, i + 1) ELSE 0

\* re.FindAllString(s, -1) from position i on: leftmost match, greedy, then
\* the scan resumes after the match
RECURSIVE FindAllString(_, _)
FindAllString(s, i) ==
  IF i > Len(s) THEN <<>>
  ELSE IF i + 7 <= Len(s) /\ SubSeq(s, i, i + 6) = Sha256Prefix /\ IsHex(s[i + 7])
         THEN LET n == HexRun(s, i + 7)
              IN  <<SubSeq(s, i, i + 6 + n)>> \o FindAllString(s, i + 7 + n)
         ELSE FindAllString(s, i + 1)

\* ------------------------------------------------------------------------
\* Paths
\* ------------------------------------------------------------------------
\* runs of separators inside p collapse to one
RECURSIVE Squeeze(_)
Squeeze(p) ==
  IF Len(p) <= 1 THEN p
  ELSE IF p[1] = Slash /\ p[2] = Slash THEN Squeeze(Tail(p))
  ELSE <<p[1]>> \o Squeeze(Tail(p))

\* filepath.Clean for paths without "." and ".." elements: runs of
\* separators collapse to one, a trailing separator is dropped
Clean(p) ==
  LET s == Squeeze(p)
  IN  IF Len(s) > 1 /\ s[Len(s)] = Slash THEN SubSeq(s, 1, Len(s) - 1) ELSE s

\* the non-empty elements of elems with a separator between them
RECURSIVE Glue(_)
Glue(elems) ==
  IF elems = <<>> THEN <<>>
  ELSE IF Head(elems) = <<>> THEN Glue(Tail(elems))
  ELSE LET rest == Glue(Tail(elems))
       IN  IF rest = <<>> THEN Head(elems) ELSE Head(elems) \o <<Slash>> \o rest

\* filepath.Join(elems...): the non-empty elements joined by separators,
\* then cleaned
Join(elems) == Clean(Glue(elems))

\* position of the last separator of p (0 if none)
LastSlash(p) ==
  LET hits == {i \in 1..Len(p) : p[i] = Slash}
  IN  IF hits = {} THEN 0 ELSE CHOOSE i \in hits : \A j \in hits : j <= i

\* the directory holding p, and p's entry name in it
Parent(p) == SubSeq(p, 1, LastSlash(p) - 1)
BaseName(p) == SubSeq(p, LastSlash(p) + 1, Len(p))

\* p and the directories above it, down to (not including) top
Ancestors(p, top) ==
  {SubSeq(p, 1, k) : k \in {j \in (Len(top) + 1)..Len(p) : j = Len(p) \/ p[j + 1] = Slash}}

\* ------------------------------------------------------------------------
\* The source store (read-only)
\* ------------------------------------------------------------------------
\* directories of <base>/manifests/registry.ollama.ai/library, itself included
SrcDirs ==
  {LibraryRoot \o r : r \in {<<>>, <<47, 102, 111, 111>>, <<47, 102, 111, 111, 98, 97, 114>>, <<47, 107>>, <<47, 107, 47, 113>>, <<47, 107, 45, 113>>}}

\* manifest files: path |-> content
SrcManifests ==
  (LibraryRoot \o <<47, 102, 111, 111, 47, 118, 49>> :>
     <<123, 34, 99, 111, 110, 102, 105, 103, 34, 58, 123, 34, 100, 105, 103, 101, 115, 116, 34, 58, 34, 115, 104, 97, 50, 53, 54, 58, 99, 51, 34, 125, 44, 34, 108, 97, 121, 101, 114, 115, 34, 58, 91, 123, 34, 100, 105, 103, 101, 115, 116, 34, 58, 34, 115, 104, 97, 50, 53, 54, 58, 98, 50, 34, 125, 44, 123, 34, 100, 105, 103, 101, 115, 116, 34, 58, 34, 115, 104, 97, 50, 53, 54, 58, 97, 49, 34, 125, 44, 123, 34, 100, 105, 103, 101, 115, 116, 34, 58, 34, 115, 104, 97, 50, 53, 54, 58, 98, 50, 34, 125, 93, 125>>)
  @@ (LibraryRoot \o <<47, 102, 111, 111, 47, 118, 50>> :> <<123, 34, 108, 97, 121, 101, 114, 115, 34, 58, 91, 123, 34, 100, 105, 103, 101, 115, 116, 34, 58, 34, 115, 104, 97, 50, 53, 54, 58, 97, 49, 34, 125, 93, 125>>)
  @@ (LibraryRoot \o <<47, 102, 111, 111, 98, 97, 114, 47, 118, 49>> :> <<123, 34, 108, 97, 121, 101, 114, 115, 34, 58, 91, 93, 44, 34, 110, 111, 116, 101, 34, 58, 34, 115, 104, 97, 50, 53, 54, 58, 88, 89, 32, 83, 72, 65, 50, 53, 54, 58, 97, 98, 32, 115, 104, 97, 50, 53, 54, 34, 125>>)
  @@ (LibraryRoot \o <<47, 107, 47, 113, 47, 116>> :>
     <<123, 34, 108, 97, 121, 101, 114, 115, 34, 58, 91, 123, 34, 100, 105, 103, 101, 115, 116, 34, 58, 34, 115, 104, 97, 50, 53, 54, 58, 98, 50, 102, 34, 125, 44, 123, 34, 100, 105, 103, 101, 115, 116, 34, 58, 34, 115, 104, 97, 50, 53, 54, 58, 98, 50, 34, 125, 93, 125>>)

\* every digest some manifest refers to
Digests == {<<97, 49>>, <<98, 50>>, <<98, 50, 102>>, <<99, 51>>}

\* the blob stores the program is run against: digest |-> what
\* <base>/blobs/sha256-<digest> is ("file", "unreadable": a file that
\* os.Stat finds and os.Open refuses, "absent")
BlobStores ==
  { [d \in Digests |-> "file"],
    [d \in Digests |-> IF d = <<98, 50>> THEN "absent" ELSE "file"],
    [d \in Digests |-> IF d = <<97, 49>> THEN "unreadable"
                       ELSE IF d = <<99, 51>> THEN "absent" ELSE "file"] }

\* what os.Stat finds at a path of the manifest tree
SrcKind(p) ==
  IF p \in SrcDirs THEN "dir"
  ELSE IF p \in DOMAIN SrcManifests THEN "file"
  ELSE "absent"

\* os.ReadDir(dir): the entry names of dir, sorted by name
ReadDir(dir) ==
  SetToSorted({BaseName(p) : p \in {q \in (SrcDirs \cup DOMAIN SrcManifests) :
                                      q # LibraryRoot /\ Parent(q) = dir}})

\* filepath.Walk(root, fn) with fn of main.go 225-233: the directories
\* whose path contains name, in the order Walk visits them (a directory,
\* then its entries in name order, depth first)
RECURSIVE WalkCandidates(_, _)
RECURSIVE WalkEntries(_, _, _)
WalkCandidates(path, name) ==
  IF SrcKind(path) # "dir" THEN <<>>
  ELSE (IF Contains(path, name) THEN <<path>> ELSE <<>>)
       \o WalkEntries(path, ReadDir(path), name)
WalkEntries(dir, names, name) ==
  IF names = <<>> THEN <<>>
  ELSE WalkCandidates(dir \o <<Slash>> \o Head(names), name)
       \o WalkEntries(dir, Tail(names), name)

\* ------------------------------------------------------------------------
\* Selectors
\* ------------------------------------------------------------------------
\* the name[:tag] selectors given on the command line or listed by
\* `ollama ls`
Selectors ==
  { <<102, 111, 111>>, <<102, 111, 111, 58, 118, 49>>, <<102, 111, 111, 58, 118, 57>>, <<102, 111, 111, 58>>, <<102, 111, 111, 98, 97, 114>>, <<122, 122>>,
    <<113>>, <<107>>, <<107, 47, 113>>, <<108, 108, 97, 109, 97>> }

\* sequences over S of length at most n
SeqsUpTo(S, n) == UNION {[1..k -> S] : k \in 0..n}

\* main.go 217: strings.Split(modelFull, ":")[0]
NameOf(modelFull) == Split(modelFull, Colon)[1]

\* main.go 218-221
TagOf(modelFull) ==
  IF Contains(modelFull, <<Colon>>) THEN Split(modelFull, Colon)[2] ELSE <<>>

\* ------------------------------------------------------------------------
\* The destination tree
\* ------------------------------------------------------------------------
\* default of flag -d, "./ollama-export", as filepath.Join cleans it
outputDir == <<111, 108, 108, 97, 109, 97, 45, 101, 120, 112, 111, 114, 116>>

\* "models/manifests/registry.ollama.ai/library/"
DestLibrarySuffix == <<109, 111, 100, 101, 108, 115, 47, 109, 97, 110, 105, 102, 101, 115, 116, 115, 47, 114, 101, 103, 105, 115, 116, 114, 121, 46, 111, 108, 108, 97, 109, 97, 46, 97, 105, 47, 108, 105, 98, 114, 97, 114, 121, 47>>

\* <output>/models/manifests/registry.ollama.ai/library
OutLibrary == Join(<<outputDir, DestLibrarySuffix>>)

\* a destination path relative to OutLibrary (<<>> is OutLibrary itself)
DestRel(p) == TrimPrefix(p, OutLibrary)

\* main.go 250: the model's name, from the chosen directory
ModelName(dir) == ReplaceAll(TrimPrefix(dir, LibraryRoot), Slash, Colon)

\* main.go 295
ModelNameDest(dir) == ReplaceAll(ModelName(dir), Colon, Slash)

\* main.go 296: the destination directory of the model
DestModelDir(dir) == DestRel(Join(<<outputDir, DestLibrarySuffix, ModelNameDest(dir)>>))

\* main.go 302: the destination path of the manifest
DestManifest(dir, tag) ==
  DestRel(Join(<<outputDir, DestLibrarySuffix, ModelNameDest(dir), tag>>))

\* a copyFile that returns no error when os.Open fails
copyFileSwallowsOpenError(srcKind, destKind) ==
  IF srcKind \notin {"file", "dir"} THEN [err |-> FALSE, dest |-> "untouched"]
  ELSE IF destKind \notin {"absent", "file"} THEN [err |-> TRUE, dest |-> "untouched"]
  ELSE IF srcKind = "dir" THEN [err |-> TRUE, dest |-> "truncated"]
  ELSE [err |-> FALSE, dest |-> "copied"]

\* a copyFile that returns no error when io.Copy fails
copyFileIgnoresCopyError(srcKind, destKind) ==
  IF srcKind \notin {"file", "dir"} THEN [err |-> TRUE, dest |-> "untouched"]
  ELSE IF destKind \notin {"absent", "file"} THEN [err |-> TRUE, dest |-> "untouched"]
  ELSE IF srcKind = "dir" THEN [err |-> FALSE, dest |-> "truncated"]
  ELSE [err |-> FALSE, dest |-> "copied"]

\* a copyFile that refuses to write over an existing file
copyFileNoOverwrite(srcKind, destKind) ==
  IF srcKind \notin {"file", "dir"} \/ destKind # "absent"
    THEN [err |-> TRUE, dest |-> "untouched"]
    ELSE IF srcKind = "dir" THEN [err |-> TRUE, dest |-> "truncated"]
    ELSE [err |-> FALSE, dest |-> "copied"]

\* copyFile(src, dest): whether it returns an error, and what it leaves at
\* dest.  os.Open fails on a source that cannot be opened; os.Create fails
\* when dest is a directory or the directory of dest is missing, else it
\* creates or truncates dest; io.Copy fails on a source that is a directory.
copyFile(srcKind, destKind) ==
  IF srcKind \notin {"file", "dir"} THEN [err |-> TRUE, dest |-> "untouched"]
  ELSE IF destKind \notin {"absent", "file"} THEN [err |-> TRUE, dest |-> "untouched"]
  ELSE IF srcKind = "dir" THEN [err |-> TRUE, dest |-> "truncated"]
  ELSE [err |-> FALSE, dest |-> "copied"]

\* ------------------------------------------------------------------------
\* State
\* ------------------------------------------------------------------------
VARIABLES
  args,             \* flag.Args(): the selectors of the command line
  srcLayout,        \* "ok", or which of <base>/manifests, <base>/blobs is missing
  srcBlobs,         \* the blob store: digest |-> "file", "unreadable", "absent"
  faults,           \* transient I/O errors injected so far
  pc,               \* position in main
  exitStatus,       \* -1 while running, else the exit status of the process
  modelsToExport,   \* main.go 201
  idx,              \* position of the range loop of main.go 216
  modelTag,         \* main.go 218
  modelDir,         \* main.go 249
  manifestContent,  \* main.go 309
  blobs,            \* main.go 323-328
  bi,               \* position of the range loop of main.go 351
  copiedCount,      \* main.go 334
  failedCount,      \* main.go 335
  manifestAttempts, \* calls of copyFile for the manifest of this selector
  dstDirs,          \* directories of the destination manifest tree
  dstFiles,         \* files of the destination manifest tree: path |-> content
  dstBlobs,         \* <output>/models/blobs: digest |-> content
  archive,          \* the tree that tar packed, once it has
  results,          \* per processed selector, how its processing ended and the
                    \* destination tree it left
  appPc,            \* position in App.Run ("idle": App.Run is not running)
  blobHashes        \* app.go 96

env == <<args, srcLayout, srcBlobs>>
locals == <<modelTag, modelDir, manifestContent, blobs, bi, copiedCount, failedCount, manifestAttempts>>
dst == <<dstDirs, dstFiles, dstBlobs>>
app == <<appPc, blobHashes>>
vars == <<args, srcLayout, srcBlobs, faults, pc, exitStatus, modelsToExport, idx,
          modelTag, modelDir, manifestContent, blobs, bi, copiedCount, failedCount, manifestAttempts,
          dstDirs, dstFiles, dstBlobs, archive, results, appPc, blobHashes>>

\* the empty function (no file)
NoFiles == [x \in {} |-> <<>>]

\* the content of <base>/blobs/sha256-<d>: the store is content-addressed,
\* the digest stands for the bytes
BlobContent(d) == d

\* os.Stat of <base>/blobs/sha256-<d>
BlobKind(d) == IF d \in DOMAIN srcBlobs THEN srcBlobs[d] ELSE "absent"

Init ==
  /\ args \in SeqsUpTo(Selectors, MaxSelectors)
  /\ srcLayout \in {"ok", "nomanifests", "noblobs"}
  /\ srcBlobs \in BlobStores
  /\ faults = 0
  /\ pc = "start"
  /\ exitStatus = -1
  /\ modelsToExport = <<>>
  /\ idx = 0
  /\ modelTag = <<>>
  /\ modelDir = <<>>
  /\ manifestContent = <<>>
  /\ blobs = <<>>
  /\ bi = 0
  /\ copiedCount = 0
  /\ failedCount = 0
  /\ manifestAttempts = 0
  /\ dstDirs = {}
  /\ dstFiles = NoFiles
  /\ dstBlobs = NoFiles
  /\ archive = <<>>
  /\ results = <<>>
  /\ appPc = "idle"
  /\ blobHashes = <<>>

\* what is at path p of the destination manifest tree
DestKind(p) ==
  IF p \in dstDirs THEN "dir"
  ELSE IF p \in DOMAIN dstFiles THEN "file"
  ELSE IF Parent(p) \in dstDirs THEN "absent"
  ELSE "noparent"

\* os.MkdirAll(p) fails when p or a directory above it is a file
MkdirAllOk(p) == Ancestors(p, <<>>) \cap DOMAIN dstFiles = {}

\* the directories os.MkdirAll(p) leaves: it creates from the top down and
\* stops at the first path that is a file
MkdirAllDirs(p) ==
  dstDirs \cup {<<>>} \cup
    {a \in Ancestors(p, <<>>) :
       \A f \in Ancestors(p, <<>>) \cap DOMAIN dstFiles : Len(a) < Len(f)}

\* f with x mapped to v
Put(f, x, v) == [y \in DOMAIN f \cup {x} |-> IF y = x THEN v ELSE f[y]]

\* ------------------------------------------------------------------------
\* Steps of main
\* ------------------------------------------------------------------------
\* errorExit(msg): os.Exit(1)
errorExit ==
  /\ pc' = "exit"
  /\ exitStatus' = 1

\* the end of one iteration of the loop of main.go 216 (a `continue`, or
\* the end of the loop body): the next selector is up
NextSelector(outcome, dir, tag, plan, copied, failed, attempts) ==
  /\ results' = Append(results,
       [sel |-> modelsToExport[idx], outcome |-> outcome, dir |-> dir, tag |-> tag,
        blobs |-> plan, copied |-> copied, failed |-> failed, attempts |-> attempts,
        dstDirs |-> dstDirs', dstFiles |-> dstFiles', dstBlobs |-> dstBlobs'])
  /\ idx' = idx + 1
  /\ pc' = "loop"
  /\ modelTag' = <<>>
  /\ modelDir' = <<>>
  /\ manifestContent' = <<>>
  /\ blobs' = <<>>
  /\ bi' = 0
  /\ copiedCount' = 0
  /\ failedCount' = 0
  /\ manifestAttempts' = 0

\* the models `ollama ls` may list (getOllamaModelsWithTags: name:tag)
ListedModels == {<<102, 111, 111, 58, 118, 49>>, <<102, 111, 111, 58, 118, 50>>, <<107, 47, 113, 58, 116>>}

\* main.go 181-186: a source directory is missing
StartMissingDir ==
  /\ pc = "start"
  /\ srcLayout # "ok"
  /\ errorExit
  /\ UNCHANGED <<env, app, faults, modelsToExport, idx, locals, dst, archive, results>>

\* main.go 192-197: the destination directories cannot be created
StartMkdirError ==
  /\ pc = "start"
  /\ srcLayout = "ok"
  /\ faults < MaxFaults
  /\ faults' = faults + 1
  /\ errorExit
  /\ UNCHANGED <<env, app, modelsToExport, idx, locals, dst, archive, results>>

\* main.go 181-204: directories verified and created, selectors given
StartWithArgs ==
  /\ pc = "start"
  /\ srcLayout = "ok"
  /\ Len(args) > 0
  /\ dstDirs' = dstDirs \cup {<<>>}
  /\ modelsToExport' = args
  /\ idx' = 1
  /\ pc' = "loop"
  /\ UNCHANGED <<env, app, faults, exitStatus, locals, dstFiles, dstBlobs, archive, results>>

\* main.go 205-213: no selector given, the installed models are listed
StartListing ==
  /\ pc = "start"
  /\ srcLayout = "ok"
  /\ Len(args) = 0
  /\ dstDirs' = dstDirs \cup {<<>>}
  /\ \E listed \in SeqsUpTo(ListedModels, MaxSelectors) : modelsToExport' = listed
  /\ idx' = 1
  /\ pc' = "loop"
  /\ UNCHANGED <<env, app, faults, exitStatus, locals, dstFiles, dstBlobs, archive, results>>

\* main.go 208-211: getOllamaModelsWithTags returns an error
StartListingError ==
  /\ pc = "start"
  /\ srcLayout = "ok"
  /\ Len(args) = 0
  /\ dstDirs' = dstDirs \cup {<<>>}
  /\ errorExit
  /\ UNCHANGED <<env, app, faults, modelsToExport, idx, locals, dstFiles, dstBlobs,
                 archive, results>>

\* a main without the sort of the candidates
sortCandidatesOmitted(cands) == cands

\* main.go 248: sort.Strings(modelDirCandidates)
sortCandidates(cands) == SortStrings(cands)

\* main.go 216-253: the selector is split, the manifest tree is walked, the
\* first of the sorted candidates is the model directory
Locate ==
  /\ pc = "loop"
  /\ UNCHANGED <<env, app, faults, exitStatus, modelsToExport, dst, archive>>
  /\ idx <= Len(modelsToExport)
  /\ LET modelFull == modelsToExport[idx]
         modelDirCandidates == WalkCandidates(LibraryRoot, NameOf(modelFull))
     IN  IF Len(modelDirCandidates) = 0
           THEN NextSelector("nomatch", <<>>, <<>>, <<>>, 0, 0, 0)
           ELSE /\ modelDir' = sortCandidates(modelDirCandidates)[1]
                /\ modelTag' = TagOf(modelFull)
                /\ pc' = "tag"
                /\ UNCHANGED <<idx, manifestContent, blobs, bi, copiedCount, failedCount,
                               manifestAttempts, results>>

\* main.go 234-236: filepath.Walk returns an error
LocateWalkError ==
  /\ pc = "loop"
  /\ idx <= Len(modelsToExport)
  /\ faults < MaxFaults
  /\ faults' = faults + 1
  /\ errorExit
  /\ UNCHANGED <<env, app, modelsToExport, idx, locals, dst, archive, results>>

\* a main that takes the first entry for the tag
lastEntryFirst(files) == files[1]

\* main.go 263: files[len(files)-1].Name()
lastEntry(files) == files[Len(files)]

\* main.go 255-271: without a tag, the last entry of the directory is the tag
ResolveTag ==
  /\ pc = "tag"
  /\ UNCHANGED <<env, app, faults, exitStatus, modelsToExport, dst, archive>>
  /\ IF modelTag = <<>>
       THEN LET files == ReadDir(modelDir)
            IN  IF Len(files) > 0
                  THEN /\ modelTag' = lastEntry(files)
                       /\ pc' = "stat"
                       /\ UNCHANGED <<idx, modelDir, manifestContent, blobs, bi, copiedCount,
                                      failedCount, manifestAttempts, results>>
                  ELSE NextSelector("notag", modelDir, <<>>, <<>>, 0, 0, 0)
       ELSE /\ pc' = "stat"
            /\ UNCHANGED <<idx, locals, results>>

\* main.go 258-261: os.ReadDir returns an error
ResolveTagReadDirError ==
  /\ pc = "tag"
  /\ modelTag = <<>>
  /\ faults < MaxFaults
  /\ faults' = faults + 1
  /\ errorExit
  /\ UNCHANGED <<env, app, modelsToExport, idx, locals, dst, archive, results>>

\* a main without the os.Stat of the manifest
manifestMissingUnchecked(dir, tag) == FALSE

\* main.go 282: os.Stat(filepath.Join(modelDir, modelTag)) finds nothing
manifestMissing(dir, tag) == SrcKind(Join(<<dir, tag>>)) = "absent"

\* main.go 273-292: the manifest of the tag must exist (the directory of
\* main.go 274 was just walked and exists)
StatManifest ==
  /\ pc = "stat"
  /\ UNCHANGED <<env, app, faults, exitStatus, modelsToExport, dst, archive>>
  /\ IF manifestMissing(modelDir, modelTag)
       THEN NextSelector("notexist", modelDir, modelTag, <<>>, 0, 0, 0)
       ELSE /\ pc' = "mkdir"
            /\ UNCHANGED <<idx, locals, results>>

\* main.go 294-298: the destination directory of the model
MkdirModel ==
  /\ pc = "mkdir"
  /\ dstDirs' = MkdirAllDirs(DestModelDir(modelDir))
  /\ IF MkdirAllOk(DestModelDir(modelDir))
       THEN pc' = "manifest" /\ UNCHANGED exitStatus
       ELSE errorExit
  /\ UNCHANGED <<env, app, faults, modelsToExport, idx, locals, dstFiles, dstBlobs,
                 archive, results>>

\* main.go 300-305: the manifest is copied; a failed copy ends the
\* processing of this selector
CopyManifest ==
  /\ pc = "manifest"
  /\ UNCHANGED <<env, app, faults, exitStatus, modelsToExport, dstDirs, dstBlobs, archive>>
  /\ LET src == Join(<<modelDir, modelTag>>)
         dest == DestManifest(modelDir, modelTag)
         r == copyFile(SrcKind(src), DestKind(dest))
     IN  /\ dstFiles' = IF r.dest = "copied" THEN Put(dstFiles, dest, SrcManifests[src])
                        ELSE IF r.dest = "truncated" THEN Put(dstFiles, dest, <<>>)
                        ELSE dstFiles
         /\ IF r.err
              THEN NextSelector("copyfail", modelDir, modelTag, <<>>, 0, 0,
                                manifestAttempts + 1)
              ELSE /\ manifestAttempts' = manifestAttempts + 1
                   /\ pc' = "read"
                   /\ UNCHANGED <<idx, modelTag, modelDir, manifestContent, blobs, bi,
                                  copiedCount, failedCount, results>>

\* a main without the call of unique
extractBlobsNoUnique(blobData) ==
  SortStrings([i \in 1..Len(blobData) |-> TrimPrefix(blobData[i], Sha256Prefix)])

\* a main that plans every blob of the store
extractBlobsWholeStore(blobData) == SetToSorted(Digests)

\* a main without the sort of the digests
extractBlobsUnsorted(blobData) ==
  unique([i \in 1..Len(blobData) |-> TrimPrefix(blobData[i], Sha256Prefix)])

\* main.go 323-328: the digests of the matches, sorted and deduplicated
extractBlobs(blobData) ==
  unique(SortStrings([i \in 1..Len(blobData) |-> TrimPrefix(blobData[i], Sha256Prefix)]))

\* main.go 307-309: the manifest is read
ReadManifest ==
  /\ pc = "read"
  /\ SrcKind(Join(<<modelDir, modelTag>>)) = "file"
  /\ manifestContent' = SrcManifests[Join(<<modelDir, modelTag>>)]
  /\ pc' = "scan"
  /\ UNCHANGED <<env, app, faults, exitStatus, modelsToExport, idx, modelTag, modelDir, blobs,
                 bi, copiedCount, failedCount, manifestAttempts, dst, archive, results>>

\* main.go 309-313: os.ReadFile returns an error (the path is no readable
\* file, or a transient error)
ReadManifestError ==
  /\ pc = "read"
  /\ UNCHANGED <<env, app, exitStatus, modelsToExport, dst, archive>>
  /\ IF SrcKind(Join(<<modelDir, modelTag>>)) = "file"
       THEN faults < MaxFaults /\ faults' = faults + 1
       ELSE UNCHANGED faults
  /\ NextSelector("readfail", modelDir, modelTag, <<>>, 0, 0, manifestAttempts)

\* main.go 315-335: the manifest is scanned for digests; without any, the
\* processing of this selector ends
ScanManifest ==
  /\ pc = "scan"
  /\ UNCHANGED <<env, app, faults, exitStatus, modelsToExport, dst, archive>>
  /\ LET blobData == FindAllString(manifestContent, 1)
     IN  IF Len(blobData) = 0
           THEN NextSelector("nodigest", modelDir, modelTag, <<>>, 0, 0, manifestAttempts)
           ELSE /\ blobs' = extractBlobs(blobData)
                /\ bi' = 1
                /\ copiedCount' = 0
                /\ failedCount' = 0
                /\ pc' = "blobs"
                /\ UNCHANGED <<idx, modelTag, modelDir, manifestContent, manifestAttempts,
                               results>>

\* a blob loop that does not count a missing blob
failedAfterMissingUncounted(failed, statOk, err) ==
  IF statOk /\ err THEN failed + 1 ELSE failed

\* main.go 357-369: the counters after one blob; statOk: os.Stat found the
\* blob, err: copyFile returned an error
copiedAfter(copied, statOk, err) == IF statOk /\ ~err THEN copied + 1 ELSE copied
failedAfter(failed, statOk, err) == IF statOk /\ ~err THEN failed ELSE failed + 1

\* main.go 351-371: one iteration of the blob loop
CopyBlob ==
  /\ pc = "blobs"
  /\ bi <= Len(blobs)
  /\ LET blob == blobs[bi]
         destKind == IF blob \in DOMAIN dstBlobs THEN "file" ELSE "absent"
         r == copyFile(BlobKind(blob), destKind)
         statOk == BlobKind(blob) # "absent"
     IN  /\ dstBlobs' = IF statOk /\ r.dest = "copied"
                           THEN Put(dstBlobs, blob, BlobContent(blob))
                         ELSE IF statOk /\ r.dest = "truncated"
                           THEN Put(dstBlobs, blob, <<>>)
                         ELSE dstBlobs
         /\ copiedCount' = copiedAfter(copiedCount, statOk, r.err)
         /\ failedCount' = failedAfter(failedCount, statOk, r.err)
  /\ bi' = bi + 1
  /\ UNCHANGED <<env, app, faults, pc, exitStatus, modelsToExport, idx, modelTag, modelDir,
                 manifestContent, blobs, manifestAttempts, dstDirs, dstFiles, archive, results>>

\* main.go 372-382: the blob loop is over, the counts are reported
FinishModel ==
  /\ pc = "blobs"
  /\ UNCHANGED <<env, app, faults, exitStatus, modelsToExport, dst, archive>>
  /\ bi > Len(blobs)
  /\ NextSelector("done", modelDir, modelTag, blobs, copiedCount, failedCount,
                  manifestAttempts)

\* a main that calls errorExit when no blob was exported
PackageFailsWithoutBlobs ==
  /\ pc = "loop"
  /\ idx > Len(modelsToExport)
  /\ IF DOMAIN dstBlobs = {}
       THEN errorExit /\ UNCHANGED archive
       ELSE /\ archive' = <<[dirs |-> dstDirs, files |-> dstFiles, blobs |-> dstBlobs]>>
            /\ pc' = "done"
            /\ exitStatus' = 0
  /\ UNCHANGED <<env, app, faults, modelsToExport, idx, locals, dst, results>>

\* main.go 384-413: every selector was processed; the destination tree is
\* packed (an empty blob directory is only warned about) and main returns
Package ==
  /\ pc = "loop"
  /\ idx > Len(modelsToExport)
  /\ archive' = <<[dirs |-> dstDirs, files |-> dstFiles, blobs |-> dstBlobs]>>
  /\ pc' = "done"
  /\ exitStatus' = 0
  /\ UNCHANGED <<env, app, faults, modelsToExport, idx, locals, dst, results>>

\* main.go 401-403: tar fails
PackageError ==
  /\ pc = "loop"
  /\ idx > Len(modelsToExport)
  /\ faults < MaxFaults
  /\ faults' = faults + 1
  /\ errorExit
  /\ UNCHANGED <<env, app, modelsToExport, idx, locals, dst, archive, results>>

Next ==
  \/ StartMissingDir
  \/ StartMkdirError
  \/ StartWithArgs
  \/ StartListing
  \/ StartListingError
  \/ Locate
  \/ LocateWalkError
  \/ ResolveTag
  \/ ResolveTagReadDirError
  \/ StatManifest
  \/ MkdirModel
  \/ CopyManifest
  \/ ReadManifest
  \/ ReadManifestError
  \/ ScanManifest
  \/ CopyBlob
  \/ FinishModel
  \/ Package
  \/ PackageError

Spec == Init /\ [][Next]_vars

\* ------------------------------------------------------------------------
\* The digest scan on its own, over many manifest texts
\* ------------------------------------------------------------------------
\* the pieces manifest texts are put together from
Tokens ==
  { <<115, 104, 97, 50, 53, 54, 58, 97, 49>>, <<115, 104, 97, 50, 53, 54, 58, 98, 50>>, <<115, 104, 97, 50, 53, 54, 58, 48, 102, 57>>, <<115, 104, 97, 50, 53, 54, 58>>, <<97, 49>>, <<34, 44, 34>> }

\* the pieces of ts, one after the other
RECURSIVE Flatten(_)
Flatten(ts) == IF ts = <<>> THEN <<>> ELSE Head(ts) \o Flatten(Tail(ts))

\* the manifest texts scanned
ManifestTexts == {Flatten(ts) : ts \in SeqsUpTo(Tokens, MaxTokens)}

\* main is about to scan the manifest of its only selector; the manifest
\* was copied and read, its text is any of ManifestTexts
InitExtract ==
  /\ args = <<<<102, 111, 111, 58, 118, 49>>>>
  /\ srcLayout = "ok"
  /\ srcBlobs \in BlobStores
  /\ faults = 0
  /\ pc = "scan"
  /\ exitStatus = -1
  /\ modelsToExport = args
  /\ idx = 1
  /\ modelTag = <<118, 49>>
  /\ modelDir = LibraryRoot \o <<47, 102, 111, 111>>
  /\ manifestContent \in ManifestTexts
  /\ blobs = <<>>
  /\ bi = 0
  /\ copiedCount = 0
  /\ failedCount = 0
  /\ manifestAttempts = 1
  /\ dstDirs = {<<>>, <<47, 102, 111, 111>>}
  /\ dstFiles = (<<47, 102, 111, 111, 47, 118, 49>> :> manifestContent)
  /\ dstBlobs = NoFiles
  /\ archive = <<>>
  /\ results = <<>>
  /\ appPc = "idle"
  /\ blobHashes = <<>>

NextExtract ==
  \/ ScanManifest
  \/ CopyBlob

SpecExtract == InitExtract /\ [][NextExtract]_vars

\* ------------------------------------------------------------------------
\* Locating a model on its own, over many names
\* ------------------------------------------------------------------------
\* the bytes names are put together from: "-", "/", "f", "k", "o", "q"
NameBytes == {45, 47, 102, 107, 111, 113}

\* the names located: not empty, no colon
Names == UNION {[1..n -> NameBytes] : n \in 1..MaxNameLen}

\* main is about to process its only selector, a name without a tag
InitLocate ==
  /\ args \in {<<n>> : n \in Names}
  /\ srcLayout = "ok"
  /\ srcBlobs \in BlobStores
  /\ faults = 0
  /\ pc = "loop"
  /\ exitStatus = -1
  /\ modelsToExport = args
  /\ idx = 1
  /\ modelTag = <<>>
  /\ modelDir = <<>>
  /\ manifestContent = <<>>
  /\ blobs = <<>>
  /\ bi = 0
  /\ copiedCount = 0
  /\ failedCount = 0
  /\ manifestAttempts = 0
  /\ dstDirs = {<<>>}
  /\ dstFiles = NoFiles
  /\ dstBlobs = NoFiles
  /\ archive = <<>>
  /\ results = <<>>
  /\ appPc = "idle"
  /\ blobHashes = <<>>

NextLocate ==
  \/ Locate
  \/ ResolveTag
  \/ StatManifest

SpecLocate == InitLocate /\ [][NextLocate]_vars

\* ------------------------------------------------------------------------
\* The structured parse of App.Run (app.go), next to the scan of main
\* ------------------------------------------------------------------------
Quote == 34
Comma == 44
LBrace == 123
RBrace == 125
LBracket == 91
RBracket == 93

\* the byte at position i of s, 0 past the end
At(s, i) == IF i \in 1..Len(s) THEN s[i] ELSE 0

\* the outcome of decoding one JSON value: the value and the position after
\* it.  A value is [t |-> "obj", v |-> key :> value ..], [t |-> "arr",
\* v |-> <<value, ..>>], [t |-> "str", v |-> bytes] or [t |-> "num", ..]
JsonFail == [ok |-> FALSE, val |-> <<>>, next |-> 0]
JsonOk(v, n) == [ok |-> TRUE, val |-> v, next |-> n]

\* a JSON string at position i (the manifests use no escapes)
ParseString(s, i) ==
  IF At(s, i) # Quote THEN JsonFail
  ELSE LET closes == {j \in (i + 1)..Len(s) : s[j] = Quote}
       IN  IF closes = {} THEN JsonFail
           ELSE LET j == CHOOSE x \in closes : \A y \in closes : x <= y
                IN  JsonOk([t |-> "str", v |-> SubSeq(s, i + 1, j - 1)], j + 1)

\* the length of the run of digits at position i
RECURSIVE DigitRun(_, _)
DigitRun(s, i) == IF At(s, i) >= 48 /\ At(s, i) <= 57 THEN 1 + DigitRun(s, i + 1) ELSE 0

\* a JSON number at position i (the manifests use unsigned integers)
ParseNumber(s, i) ==
  IF DigitRun(s, i) = 0 THEN JsonFail
  ELSE JsonOk([t |-> "num", v |-> SubSeq(s, i, i + DigitRun(s, i) - 1)], i + DigitRun(s, i))

\* a JSON value at position i; the members of an object after "{" or ",",
\* a later member of the same name replacing an earlier one; the elements
\* of an array after "[" or ","
RECURSIVE ParseValue(_, _)
RECURSIVE ParseMembers(_, _, _)
RECURSIVE ParseElements(_, _, _)
ParseValue(s, i) ==
  IF At(s, i) = LBrace
    THEN IF At(s, i + 1) = RBrace
           THEN JsonOk([t |-> "obj", v |-> NoFiles], i + 2)
           ELSE ParseMembers(s, i + 1, NoFiles)
  ELSE IF At(s, i) = LBracket
    THEN IF At(s, i + 1) = RBracket
           THEN JsonOk([t |-> "arr", v |-> <<>>], i + 2)
           ELSE ParseElements(s, i + 1, <<>>)
  ELSE IF At(s, i) = Quote THEN ParseString(s, i)
  ELSE ParseNumber(s, i)

ParseMembers(s, i, acc) ==
  LET k == ParseString(s, i)
  IN  IF ~k.ok \/ At(s, k.next) # Colon THEN JsonFail
      ELSE LET m == ParseValue(s, k.next + 1)
           IN  IF ~m.ok THEN JsonFail
               ELSE IF At(s, m.next) = Comma
                 THEN ParseMembers(s, m.next + 1, Put(acc, k.val.v, m.val))
               ELSE IF At(s, m.next) = RBrace
                 THEN JsonOk([t |-> "obj", v |-> Put(acc, k.val.v, m.val)], m.next + 1)
               ELSE JsonFail

ParseElements(s, i, acc) ==
  LET m == ParseValue(s, i)
  IN  IF ~m.ok THEN JsonFail
      ELSE IF At(s, m.next) = Comma
        THEN ParseElements(s, m.next + 1, Append(acc, m.val))
      ELSE IF At(s, m.next) = RBracket
        THEN JsonOk([t |-> "arr", v |-> Append(acc, m.val)], m.next + 1)
      ELSE JsonFail

\* json.Unmarshal(data, &manifestData) into a map[string]interface{}: an
\* error unless data is one JSON object
Unmarshal(data) ==
  LET r == ParseValue(data, 1)
  IN  IF r.ok /\ r.next = Len(data) + 1 /\ r.val.t = "obj"
        THEN [err |-> FALSE, manifestData |-> r.val.v]
        ELSE [err |-> TRUE, manifestData |-> NoFiles]

\* app.go 97: manifestData["layers"].([]interface{}) panics
LayersPanic(manifestData) ==
  \/ <<108, 97, 121, 101, 114, 115>> \notin DOMAIN manifestData
  \/ manifestData[<<108, 97, 121, 101, 114, 115>>].t # "arr"

\* app.go 99-101: a type assertion or the index [1] panics for this layer
LayerPanics(layer) ==
  \/ layer.t # "obj"
  \/ <<100, 105, 103, 101, 115, 116>> \notin DOMAIN layer.v
  \/ layer.v[<<100, 105, 103, 101, 115, 116>>].t # "str"
  \/ Len(Split(layer.v[<<100, 105, 103, 101, 115, 116>>].v, Colon)) < 2

\* app.go 100-101: strings.Split(digest, ":")[1]
LayerHash(layer) == Split(layer.v[<<100, 105, 103, 101, 115, 116>>].v, Colon)[2]

\* app.go 91-102: the manifest is decoded and the hash of every layer is
\* appended to blobHashes, in the order of the layers
ParseManifest ==
  /\ appPc = "parse"
  /\ LET u == Unmarshal(manifestContent)
     IN  IF u.err
           THEN appPc' = "exit" /\ UNCHANGED blobHashes
         ELSE IF LayersPanic(u.manifestData)
           THEN appPc' = "panic" /\ UNCHANGED blobHashes
         ELSE LET layers == u.manifestData[<<108, 97, 121, 101, 114, 115>>].v
              IN  IF \E i \in 1..Len(layers) : LayerPanics(layers[i])
                    THEN appPc' = "panic" /\ UNCHANGED blobHashes
                    ELSE /\ appPc' = "parsed"
                         /\ blobHashes' = [i \in 1..Len(layers) |-> LayerHash(layers[i])]
  /\ UNCHANGED <<env, faults, pc, exitStatus, modelsToExport, idx, locals, dst, archive,
                 results>>

\* the digest fields of the manifest documents
LayerDigests == {<<115, 104, 97, 50, 53, 54, 58, 97, 49>>, <<115, 104, 97, 50, 53, 54, 58, 98, 50>>, <<115, 104, 97, 50, 53, 54, 58, 99, 51>>}

\* the config digest of a manifest document; <<>>: no config member
ConfigDigests == {<<>>, <<115, 104, 97, 50, 53, 54, 58, 99, 51>>}

\* the layers array of a manifest document, as JSON text
RECURSIVE EncodeLayers(_)
EncodeLayers(ls) ==
  IF ls = <<>> THEN <<>>
  ELSE <<123, 34, 100, 105, 103, 101, 115, 116, 34, 58, 34>> \o Head(ls) \o <<34, 125>>
         \o (IF Len(ls) > 1 THEN <<Comma>> ELSE <<>>) \o EncodeLayers(Tail(ls))

\* a manifest document as the registry writes it, as JSON text
Encode(config, ls) ==
  <<123, 34, 115, 99, 104, 101, 109, 97, 86, 101, 114, 115, 105, 111, 110, 34, 58, 50, 44>>
    \o (IF config = <<>> THEN <<>> ELSE <<34, 99, 111, 110, 102, 105, 103, 34, 58, 123, 34, 100, 105, 103, 101, 115, 116, 34, 58, 34>> \o config \o <<34, 125, 44>>)
    \o <<34, 108, 97, 121, 101, 114, 115, 34, 58, 91>> \o EncodeLayers(ls) \o <<93, 125>>

\* the manifest texts both extractions are run on: the documents, a
\* document without layers, a cut-off file
JsonManifests ==
  {Encode(c, ls) : c \in ConfigDigests, ls \in SeqsUpTo(LayerDigests, MaxLayers)}
    \cup {<<123, 34, 115, 99, 104, 101, 109, 97, 86, 101, 114, 115, 105, 111, 110, 34, 58, 50, 44, 34, 99, 111, 110, 102, 105, 103, 34, 58, 123, 34, 100, 105, 103, 101, 115, 116, 34, 58, 34, 115, 104, 97, 50, 53, 54, 58, 99, 51, 34, 125, 125>>,
          <<123, 34, 115, 99, 104, 101, 109, 97, 86, 101, 114, 115, 105, 111, 110, 34, 58, 50, 44, 34, 108, 97, 121, 101, 114, 115, 34, 58, 91, 123, 34, 100, 105, 103, 101, 115, 116, 34, 58, 34, 115, 104, 97, 50, 53, 54, 58, 97, 49, 34, 125>>}

\* main is about to scan the manifest of its only selector and App.Run is
\* about to decode the same manifest
InitParse ==
  /\ args = <<<<102, 111, 111, 58, 118, 49>>>>
  /\ srcLayout = "ok"
  /\ srcBlobs \in BlobStores
  /\ faults = 0
  /\ pc = "scan"
  /\ exitStatus = -1
  /\ modelsToExport = args
  /\ idx = 1
  /\ modelTag = <<118, 49>>
  /\ modelDir = LibraryRoot \o <<47, 102, 111, 111>>
  /\ manifestContent \in JsonManifests
  /\ blobs = <<>>
  /\ bi = 0
  /\ copiedCount = 0
  /\ failedCount = 0
  /\ manifestAttempts = 1
  /\ dstDirs = {<<>>, <<47, 102, 111, 111>>}
  /\ dstFiles = (<<47, 102, 111, 111, 47, 118, 49>> :> manifestContent)
  /\ dstBlobs = NoFiles
  /\ archive = <<>>
  /\ results = <<>>
  /\ appPc = "parse"
  /\ blobHashes = <<>>

NextParse ==
  \/ ScanManifest
  \/ ParseManifest

SpecParse == InitParse /\ [][NextParse]_vars

\* ------------------------------------------------------------------------
\* What the claims speak of, stated on the source store itself
\* ------------------------------------------------------------------------
\* how the processing of a selector ends short of the blob loop
PerModelFailures == {"nomatch", "notag", "notexist", "copyfail", "readfail", "nodigest"}

\* the destination tree before the i-th selector is processed: the two
\* directories of main.go 192-197, or what the selector before it left
DstBefore(i) ==
  IF i = 1
    THEN [dstDirs |-> {<<>>}, dstFiles |-> NoFiles, dstBlobs |-> NoFiles]
    ELSE [dstDirs |-> results[i - 1].dstDirs, dstFiles |-> results[i - 1].dstFiles,
          dstBlobs |-> results[i - 1].dstBlobs]

\* the digests a manifest text refers to: every maximal run of [a-f0-9]
\* that follows an occurrence of "sha256:"
DigestRefs(text) ==
  UNION { { SubSeq(text, k + 7, e) :
              e \in {x \in (k + 7)..Len(text) :
                       /\ \A y \in (k + 7)..x : IsHex(text[y])
                       /\ (x = Len(text) \/ ~IsHex(text[x + 1]))} } :
          k \in {j \in 1..(Len(text) - 7) : SubSeq(text, j, j + 6) = Sha256Prefix} }

\* the text of the manifest file a result is about
ManifestTextOf(r) == SrcManifests[Join(<<r.dir, r.tag>>)]

\* of the digests refs, those without a blob file in the store, and those
\* whose blob file is there and cannot be copied
MissingIn(refs) == {d \in refs : d \notin DOMAIN srcBlobs \/ srcBlobs[d] = "absent"}
UncopyableIn(refs) == {d \in refs : d \in DOMAIN srcBlobs /\ srcBlobs[d] = "unreadable"}

\* the manifest of a result is in the destination tree the result left,
\* byte for byte
ManifestDelivered(r) ==
  /\ DestManifest(r.dir, r.tag) \in DOMAIN r.dstFiles
  /\ r.dstFiles[DestManifest(r.dir, r.tag)] = ManifestTextOf(r)

\* ------------------------------------------------------------------------
\* C1
\* ------------------------------------------------------------------------
\* C1: one model's failure never aborts the batch: when no I/O error is
\* injected and some selector failed for a per-model reason, the run is
\* not ended by errorExit (so every later selector is processed and the
\* packaging step is reached).
C1_FailureNeverAbortsBatch ==
  (faults = 0 /\ \E i \in 1..Len(results) : results[i].outcome \in PerModelFailures)
    => exitStatus # 1

\* ------------------------------------------------------------------------
\* C2
\* ------------------------------------------------------------------------
\* C2 as stated: with K of the N unique digests of the manifest lacking a
\* blob file, the blob loop ends with copiedCount = N-K and failedCount = K
\* and the manifest is in the destination.
C2_AsStated ==
  \A i \in 1..Len(results) :
    results[i].outcome = "done" =>
      LET refs == DigestRefs(ManifestTextOf(results[i]))
          N == Cardinality(refs)
          K == Cardinality(MissingIn(refs))
      IN  /\ results[i].copied = N - K
          /\ results[i].failed = K
          /\ ManifestDelivered(results[i])

\* C2 amended: with K of the N unique digests lacking a blob file and J of
\* the others having a blob file that cannot be copied, the blob loop ends
\* with copiedCount = N-K-J and failedCount = K+J, and the manifest is in the
\* destination; with K = 0 and J = 0, failedCount = 0 and copiedCount = N.
C2_PartialFailureCounts ==
  \A i \in 1..Len(results) :
    results[i].outcome = "done" =>
      LET refs == DigestRefs(ManifestTextOf(results[i]))
          N == Cardinality(refs)
          K == Cardinality(MissingIn(refs))
          J == Cardinality(UncopyableIn(refs))
      IN  /\ results[i].copied = N - K - J
          /\ results[i].failed = K + J
          /\ ManifestDelivered(results[i])

\* a blob loop that ended with a copied, a missing and an uncopyable blob
C2_Witness ==
  \E i \in 1..Len(results) :
    /\ results[i].outcome = "done"
    /\ results[i].copied >= 1
    /\ MissingIn(DigestRefs(ManifestTextOf(results[i]))) # {}
    /\ UncopyableIn(DigestRefs(ManifestTextOf(results[i]))) # {}

\* ------------------------------------------------------------------------
\* C3
\* ------------------------------------------------------------------------
\* C3: during the blob loop the two counters add up to the number of blobs
\* handled so far, so that after it copiedCount + failedCount is the length
\* of the deduplicated digest list, whatever the blobs were; and the
\* manifest copy was attempted exactly once for that model.
C3_CountsAddUp ==
  /\ pc = "blobs" =>
       /\ copiedCount + failedCount = bi - 1
       /\ bi <= Len(blobs) + 1
       /\ manifestAttempts = 1
  /\ \A i \in 1..Len(results) :
       results[i].outcome = "done" =>
         /\ results[i].copied + results[i].failed = Len(results[i].blobs)
         /\ Len(results[i].blobs) = Cardinality(DigestRefs(ManifestTextOf(results[i])))
         /\ results[i].attempts = 1

\* the blob loop of a model is over, having met a present, a missing and an
\* uncopyable blob
C3_Witness ==
  /\ pc = "blobs"
  /\ bi = Len(blobs) + 1
  /\ copiedCount >= 1
  /\ \E d \in Range(blobs) : srcBlobs[d] = "absent"
  /\ \E d \in Range(blobs) : srcBlobs[d] = "unreadable"

\* ------------------------------------------------------------------------
\* C4
\* ------------------------------------------------------------------------
\* the positions of a manifest text where a digest reference starts
RefStarts(text) ==
  {k \in 1..(Len(text) - 7) : SubSeq(text, k, k + 6) = Sha256Prefix /\ IsHex(text[k + 7])}

\* C4: for a manifest text with N distinct digest references, the list of
\* blobs to copy has exactly N entries, these N digests, in ascending order
\* and without duplicates, also when the text repeats a reference; a text
\* without any reference yields no list.
C4_PlanSortedUnique ==
  /\ pc = "blobs" =>
       /\ Len(blobs) = Cardinality(DigestRefs(manifestContent))
       /\ Range(blobs) = DigestRefs(manifestContent)
       /\ \A i \in 1..(Len(blobs) - 1) : StrLess(blobs[i], blobs[i + 1])
  /\ \A i \in 1..Len(results) :
       results[i].outcome = "done" =>
         /\ Range(results[i].blobs) = DigestRefs(ManifestTextOf(results[i]))
         /\ \A j \in 1..(Len(results[i].blobs) - 1) :
              StrLess(results[i].blobs[j], results[i].blobs[j + 1])

\* a list of at least two blobs from a text that repeats a reference and
\* does not list its references in ascending order
C4_Witness ==
  /\ pc = "blobs"
  /\ Len(blobs) >= 2
  /\ Cardinality(RefStarts(manifestContent)) > Len(blobs)
  /\ \E k1, k2 \in RefStarts(manifestContent) :
       k1 < k2 /\ StrLess(SubSeq(manifestContent, k2 + 7, k2 + 8),
                          SubSeq(manifestContent, k1 + 7, k1 + 8))

\* ------------------------------------------------------------------------
\* C5
\* ------------------------------------------------------------------------
\* the positions of the colons of a selector
Colons(sel) == {i \in 1..Len(sel) : sel[i] = Colon}

\* the tag a selector gives: what stands between its first colon and its
\* second colon or its end; nothing for a selector without a colon
GivenTag(sel) ==
  IF Colons(sel) = {} THEN <<>>
  ELSE LET c == CHOOSE i \in Colons(sel) : \A j \in Colons(sel) : i <= j
           stops == {j \in Colons(sel) \cup {Len(sel) + 1} : j > c}
           e == CHOOSE i \in stops : \A j \in stops : i <= j
       IN  SubSeq(sel, c + 1, e - 1)

\* the name a selector gives: what stands before its first colon
GivenName(sel) ==
  IF Colons(sel) = {} THEN sel
  ELSE SubSeq(sel, 1, (CHOOSE i \in Colons(sel) : \A j \in Colons(sel) : i <= j) - 1)

\* the entry names of a directory of the manifest tree
EntryNames(dir) ==
  {SubSeq(p, Len(dir) + 2, Len(p)) :
     p \in {q \in SrcDirs \cup DOMAIN SrcManifests :
              /\ HasPrefix(q, dir \o <<Slash>>)
              /\ \A i \in (Len(dir) + 2)..Len(q) : q[i] # Slash}}

\* n is the last of the names in bytewise lexicographic order
IsLastName(n, names) == n \in names /\ \A m \in names : m = n \/ StrLess(m, n)

\* the selector is past tag resolution
TagResolved == pc \in {"stat", "mkdir", "manifest", "read", "scan", "blobs"}

\* C5: for a selector without a tag (none given, or an empty one) the
\* resolved tag is the lexicographically last entry name of the chosen
\* directory; for a selector name:tag it is exactly the given tag, also
\* when no such tag exists in the directory (the selector then fails, no
\* other tag is tried).
C5_TagResolution ==
  /\ TagResolved =>
       IF GivenTag(modelsToExport[idx]) = <<>>
         THEN IsLastName(modelTag, EntryNames(modelDir))
         ELSE modelTag = GivenTag(modelsToExport[idx])
  /\ \A i \in 1..Len(results) :
       results[i].outcome \notin {"nomatch", "notag"} =>
         IF GivenTag(results[i].sel) = <<>>
           THEN IsLastName(results[i].tag, EntryNames(results[i].dir))
           ELSE /\ results[i].tag = GivenTag(results[i].sel)
                /\ results[i].tag \notin EntryNames(results[i].dir)
                     => results[i].outcome = "notexist"

\* a selector without a tag got the last of several entries as its tag,
\* after a selector whose given tag does not exist had failed with that tag
C5_Witness ==
  /\ pc = "stat"
  /\ GivenTag(modelsToExport[idx]) = <<>>
  /\ Cardinality(EntryNames(modelDir)) >= 2
  /\ \E i \in 1..Len(results) :
       /\ results[i].outcome = "notexist"
       /\ results[i].tag = GivenTag(results[i].sel)
       /\ EntryNames(results[i].dir) # {}

\* ------------------------------------------------------------------------
\* C6
\* ------------------------------------------------------------------------
\* the directories of the manifest tree (its root included) whose path
\* contains name
Candidates(name) == {d \in SrcDirs : Contains(d, name)}

\* d is the first of the directories in bytewise lexicographic order
IsFirstDir(d, dirs) == d \in dirs /\ \A o \in dirs : o = d \/ StrLess(d, o)

\* C6: the chosen model directory is the lexicographically smallest of all
\* directories of the manifest tree whose path contains the selector's name;
\* a selector fails to match exactly when there is none; two selectors with
\* the same name get the same directory.
C6_CandidateSelection ==
  /\ pc \in {"tag"} \cup {"stat", "mkdir", "manifest", "read", "scan", "blobs"} =>
       IsFirstDir(modelDir, Candidates(GivenName(modelsToExport[idx])))
  /\ \A i \in 1..Len(results) :
       IF Candidates(GivenName(results[i].sel)) = {}
         THEN results[i].outcome = "nomatch"
         ELSE /\ results[i].outcome # "nomatch"
              /\ IsFirstDir(results[i].dir, Candidates(GivenName(results[i].sel)))
  /\ \A i, j \in 1..Len(results) :
       GivenName(results[i].sel) = GivenName(results[j].sel)
         => results[i].dir = results[j].dir

\* a directory was chosen among several candidates, and it is not the one
\* the walk met first
C6_Witness ==
  /\ pc = "tag"
  /\ Cardinality(Candidates(GivenName(modelsToExport[idx]))) >= 2
  /\ WalkCandidates(LibraryRoot, GivenName(modelsToExport[idx]))[1] # modelDir

\* ------------------------------------------------------------------------
\* C7
\* ------------------------------------------------------------------------
\* the process has ended
Terminated == pc \in {"done", "exit"}

\* the selector of a result produced a copied manifest and a copied blob
Exported(r) == r.outcome = "done" /\ r.copied >= 1 /\ ManifestDelivered(r)

\* every requested model was exported (and there was one)
AllExported ==
  /\ Len(modelsToExport) >= 1
  /\ Len(results) = Len(modelsToExport)
  /\ \A i \in 1..Len(results) : Exported(results[i])

\* no model was exported
ZeroExported == \A i \in 1..Len(results) : ~Exported(results[i])

\* the model directory main exited in, relative to the library directory
ExitDirRel == SubSeq(modelDir, Len(LibraryRoot) + 1, Len(modelDir))

\* a reason for errorExit: a source directory is missing, an I/O error was
\* injected, the models had to be listed (`ollama ls` may fail), or a file
\* of the destination tree stands where the model directory has to be made
FatalCause ==
  \/ srcLayout # "ok"
  \/ faults > 0
  \/ Len(args) = 0
  \/ /\ modelDir # <<>>
     /\ \E f \in DOMAIN dstFiles : f = ExitDirRel \/ HasPrefix(ExitDirRel, f \o <<Slash>>)

\* C7 as stated: status 0 when every requested model produced a copied
\* manifest and a copied blob (and no I/O error struck); a non-zero status
\* when models were requested and none was exported.
C7_AsStated ==
  Terminated =>
    /\ (AllExported /\ faults = 0) => exitStatus = 0
    /\ (Len(modelsToExport) >= 1 /\ ZeroExported) => exitStatus # 0

\* C7 amended: the run ends with status 0 exactly when it reaches the end
\* of main, every selector having been processed and the tree packed, and
\* that also when no model at all was exported; it ends with status 1
\* exactly when errorExit was called, for which there is a fatal reason (a
\* failed manifest copy or read is none); while running there is no status.
C7_ExitStatus ==
  /\ pc = "done" =>
       /\ exitStatus = 0
       /\ Len(results) = Len(modelsToExport)
       /\ Len(archive) = 1
  /\ pc = "exit" =>
       /\ exitStatus = 1
       /\ archive = <<>>
       /\ FatalCause
  /\ ~Terminated => exitStatus = -1
  /\ (Terminated /\ AllExported /\ faults = 0) => exitStatus = 0

\* the run ended with status 0 although selectors were given and none was
\* exported, one of them for a failed manifest copy
C7_Witness ==
  /\ pc = "done"
  /\ exitStatus = 0
  /\ Len(args) >= 1
  /\ ZeroExported
  /\ \E i \in 1..Len(results) : results[i].outcome = "copyfail"

\* ------------------------------------------------------------------------
\* C8
\* ------------------------------------------------------------------------
\* the manifest main.go 302 copies, and where to, stated on the paths
ManifestSrcPath == modelDir \o <<Slash>> \o modelTag
ManifestDestPath == SubSeq(modelDir, Len(LibraryRoot) + 1, Len(modelDir)) \o <<Slash>> \o modelTag

\* the manifest of a result did not arrive in the destination
ManifestNotDelivered(r) ==
  \/ Join(<<r.dir, r.tag>>) \notin DOMAIN SrcManifests
  \/ ~ManifestDelivered(r)

\* C8: the steps after the manifest copy (reading the manifest, extracting
\* digests, copying blobs) are only taken with the manifest copied; a
\* selector whose manifest copy failed ends with no digest extracted, no
\* blob copied to the destination and both counters at zero, after one
\* copy attempt, and the loop is at the next selector, the run not ended.
C8_ManifestCopyFailureAborts ==
  /\ pc \in {"read", "scan", "blobs"} =>
       /\ ManifestSrcPath \in DOMAIN SrcManifests
       /\ ManifestDestPath \in DOMAIN dstFiles
       /\ dstFiles[ManifestDestPath] = SrcManifests[ManifestSrcPath]
  /\ \A i \in 1..Len(results) :
       (results[i].attempts >= 1 /\ ManifestNotDelivered(results[i])) =>
         /\ results[i].outcome = "copyfail"
         /\ results[i].attempts = 1
         /\ results[i].blobs = <<>>
         /\ results[i].copied = 0
         /\ results[i].failed = 0
         /\ results[i].dstBlobs = DstBefore(i).dstBlobs
  /\ pc = "loop" => (exitStatus = -1 /\ idx = Len(results) + 1)

\* a manifest copy has just failed, leaving a truncated file, and a further
\* selector is up
C8_Witness ==
  /\ pc = "loop"
  /\ idx <= Len(modelsToExport)
  /\ Len(results) >= 1
  /\ results[Len(results)].outcome = "copyfail"
  /\ \E f \in DOMAIN dstFiles : dstFiles[f] = <<>>

\* ------------------------------------------------------------------------
\* C9
\* ------------------------------------------------------------------------
\* locating the model of a result failed: no candidate directory, a chosen
\* directory without entries and no tag given, or no entry of the chosen
\* directory named like the resolved tag
LocateFails(r) ==
  \/ Candidates(GivenName(r.sel)) = {}
  \/ GivenTag(r.sel) = <<>> /\ EntryNames(r.dir) = {}
  \/ r.tag \notin EntryNames(r.dir)

\* C9: a selector whose model cannot be located is skipped: its processing
\* ends as a per-model failure that leaves the destination tree
\* (directories, manifest files, blobs) as it was before the selector, and
\* the loop is at the next selector, the run not ended.
C9_LocateFailureLeavesNoTrace ==
  /\ \A i \in 1..Len(results) :
       LocateFails(results[i]) =>
         /\ results[i].outcome \in {"nomatch", "notag", "notexist"}
         /\ results[i].attempts = 0
         /\ results[i].dstDirs = DstBefore(i).dstDirs
         /\ results[i].dstFiles = DstBefore(i).dstFiles
         /\ results[i].dstBlobs = DstBefore(i).dstBlobs
  /\ \A i \in 1..Len(results) :
       results[i].outcome \in {"nomatch", "notag", "notexist"} => LocateFails(results[i])
  /\ pc = "loop" => (exitStatus = -1 /\ idx = Len(results) + 1 /\ modelDir = <<>>)

\* over a destination tree that holds an exported model, a selector has
\* just failed for a tag that does not exist, and the loop goes on
C9_Witness ==
  /\ pc = "loop"
  /\ exitStatus = -1
  /\ Len(results) >= 2
  /\ results[Len(results)].outcome = "notexist"
  /\ DOMAIN results[Len(results)].dstFiles # {}
  /\ DOMAIN results[Len(results)].dstBlobs # {}

\* ------------------------------------------------------------------------
\* C10
\* ------------------------------------------------------------------------
\* the i-th and the j-th selector are the same, the i-th came first and was
\* exported to the end of its blob loop
SameModelTwice(i, j) ==
  /\ i < j
  /\ results[i].sel = results[j].sel
  /\ results[i].outcome = "done"

\* both executions report N copied and none failed, and leave the same
\* manifest and the same blobs of the model; executed one right after the
\* other, the whole destination tree is the same after both
SameResultTwice(i, j) ==
  LET refs == DigestRefs(ManifestTextOf(results[i]))
  IN  /\ results[j].outcome = "done"
      /\ results[i].copied = Cardinality(refs) /\ results[i].failed = 0
      /\ results[j].copied = Cardinality(refs) /\ results[j].failed = 0
      /\ ManifestDelivered(results[i]) /\ ManifestDelivered(results[j])
      /\ \A d \in refs :
           /\ d \in DOMAIN results[i].dstBlobs /\ d \in DOMAIN results[j].dstBlobs
           /\ results[i].dstBlobs[d] = BlobContent(d)
           /\ results[j].dstBlobs[d] = BlobContent(d)
      /\ j = i + 1 =>
           /\ results[j].dstDirs = results[i].dstDirs
           /\ results[j].dstFiles = results[i].dstFiles
           /\ results[j].dstBlobs = results[i].dstBlobs

ProcessedManifests ==
  {Join(<<results[i].dir, results[i].tag>>) : i \in 1..Len(results)}
    \cup (IF pc \in {"read", "scan", "blobs"} THEN {Join(<<modelDir, modelTag>>)} ELSE {})

\* where main.go 302 puts the copy of the source manifest m
DestOfManifest(m) == TrimPrefix(m, LibraryRoot)

\* the source manifest m refers to digest d and its copy is in the
\* destination tree, byte for byte
\* the text refers to digest d: "sha256:" followed by d, a run of [a-f0-9]
\* that ends there
RefersTo(text, d) ==
  /\ d # <<>>
  /\ \A i \in 1..Len(d) : IsHex(d[i])
  /\ \E k \in 1..(Len(text) - 6 - Len(d)) :
       /\ SubSeq(text, k, k + 6) = Sha256Prefix
       /\ SubSeq(text, k + 7, k + 6 + Len(d)) = d
       /\ (k + 6 + Len(d) = Len(text) \/ ~IsHex(text[k + 7 + Len(d)]))

ReferencedAndCopied(m, d) ==
  /\ m \in DOMAIN SrcManifests
  /\ DestOfManifest(m) \in DOMAIN dstFiles
  /\ dstFiles[DestOfManifest(m)] = SrcManifests[m]
  /\ RefersTo(SrcManifests[m], d)

\* C11: starting from an empty destination, in every reachable state each
\* file sha256-<d> of the destination blobs directory is for a digest d
\* whose blob exists in the source store and which occurs in the manifest
\* of some selector processed so far, that manifest being copied into the
\* destination; no blob outside the processed manifests is written.
C11_OnlyReferencedBlobs ==
  \A d \in DOMAIN dstBlobs :
    /\ d \in DOMAIN srcBlobs
    /\ srcBlobs[d] # "absent"
    /\ dstBlobs[d] = BlobContent(d)
    /\ \E m \in ProcessedManifests : ReferencedAndCopied(m, d)

\* the run is over with a blob exported, and the store holds a blob file
\* that no processed manifest refers to and that was not exported
C11_Witness ==
  /\ pc = "done"
  /\ DOMAIN dstBlobs # {}
  /\ \E d \in DOMAIN srcBlobs :
       /\ srcBlobs[d] = "file"
       /\ d \notin DOMAIN dstBlobs
       /\ \A m \in ProcessedManifests :
            m \in DOMAIN SrcManifests => ~RefersTo(SrcManifests[m], d)

\* ------------------------------------------------------------------------
\* C12
\* ------------------------------------------------------------------------
\* the processing of a selector ends in this step: its result is appended,
\* it is the selector at position idx of the list, and the next is up
SelectorEnds ==
  /\ idx >= 1
  /\ idx <= Len(modelsToExport)
  /\ Len(results) = idx - 1
  /\ Len(results') = idx
  /\ SubSeq(results', 1, idx - 1) = results
  /\ results'[idx].sel = modelsToExport[idx]
  /\ idx' = idx + 1

\* this step is the copy of the manifest of the selector at position idx:
\* every selector before it has ended, none of its blobs was looked at, and
\* only its manifest file is written
ManifestCopyStep ==
  /\ pc = "manifest"
  /\ Len(results) = idx - 1
  /\ blobs = <<>>
  /\ bi = 0
  /\ dstBlobs' = dstBlobs
  /\ \A f \in DOMAIN dstFiles' :
       f # DestOfManifest(Join(<<modelDir, modelTag>>)) =>
         (f \in DOMAIN dstFiles /\ dstFiles'[f] = dstFiles[f])

\* this step is the copy of the blob at position bi of the plan of the
\* selector at position idx: every selector before it has ended, its
\* manifest is in the destination, every blob before it in the plan is
\* smaller, no other blob file is written, and the next blob is up
BlobCopyStep ==
  /\ pc = "blobs"
  /\ Len(results) = idx - 1
  /\ manifestAttempts = 1
  /\ DestOfManifest(Join(<<modelDir, modelTag>>)) \in DOMAIN dstFiles
  /\ dstFiles' = dstFiles
  /\ bi \in 1..Len(blobs)
  /\ bi' = bi + 1
  /\ blobs' = blobs
  /\ \A j \in 1..(bi - 1) : StrLess(blobs[j], blobs[bi])
  /\ \A d \in DOMAIN dstBlobs' :
       d # blobs[bi] => (d \in DOMAIN dstBlobs /\ dstBlobs'[d] = dstBlobs[d])
  /\ DOMAIN dstBlobs \subseteq DOMAIN dstBlobs'

\* this step packs the destination tree: every selector of the list has
\* ended, in list order, and the tree is not written any more
PackagingStep ==
  /\ pc = "loop"
  /\ idx = Len(modelsToExport) + 1
  /\ Len(results) = Len(modelsToExport)
  /\ \A i \in 1..Len(results) : results[i].sel = modelsToExport[i]
  /\ dstDirs' = dstDirs
  /\ dstFiles' = dstFiles
  /\ dstBlobs' = dstBlobs
  /\ archive' = <<[dirs |-> dstDirs, files |-> dstFiles, blobs |-> dstBlobs]>>

\* C12: strictly sequential ordering.  In every step: the selectors end one
\* at a time in list order; a manifest file is only written by the manifest
\* copy of the selector in progress, before any of its blobs; a blob is only
\* copied with the manifest of its selector copied, one blob per step in
\* ascending order of the digests, and never while a selector before it has
\* not ended; the tree is packed only after the last selector has ended.
C12_SequentialOrder ==
  [][ /\ (results' # results) => SelectorEnds
      /\ (idx' # idx /\ idx >= 1) => SelectorEnds
      /\ (dstFiles' # dstFiles) => ManifestCopyStep
      /\ (pc = "manifest") => ManifestCopyStep
      /\ (dstBlobs' # dstBlobs) => BlobCopyStep
      /\ (pc = "blobs" /\ pc' = "blobs") => BlobCopyStep
      /\ (archive' # archive) => PackagingStep
      /\ (pc' = "done") => PackagingStep
    ]_vars

\* the second selector is in its blob loop with a first blob copied and a
\* further one to copy, after the first selector exported its blobs
C12_Witness ==
  /\ pc = "blobs"
  /\ idx = 2
  /\ bi >= 2
  /\ bi <= Len(blobs)
  /\ copiedCount >= 1
  /\ results[1].outcome = "done"
  /\ results[1].copied >= 2

\* ------------------------------------------------------------------------
\* C13
\* ------------------------------------------------------------------------
\* the sequence is strictly ascending: sorted and without duplicates
StrictlyAscending(seq) == \A i \in 1..(Len(seq) - 1) : StrLess(seq[i], seq[i + 1])

\* the digests the scan of main exposes, once it has run
ScannedDigests == IF pc = "blobs" THEN blobs ELSE <<>>

\* C13: the two digest extractions are equivalent: for every manifest the
\* structured parse decodes, its digests and those of the pattern scan are
\* the same set, and each is exposed as a sorted sequence without
\* duplicates.
C13_StrategiesEquivalent ==
  (appPc = "parsed" /\ pc # "scan") =>
     /\ Range(blobHashes) = Range(ScannedDigests)
     /\ StrictlyAscending(blobHashes)
     /\ StrictlyAscending(ScannedDigests)

====
